---- MODULE Spec2Model ----
(***************************************************************************)
(* A model of the allocators of C/src/allocators.h and                     *)
(* C/src/simple_memory_allocator.c.                                        *)
(*                                                                         *)
(* size_t is modelled as the integers modulo 2^W.  A pointer is an         *)
(* address; NULL is address 0 and every region starts at RegionBase.       *)
(* The backing region of the free-list allocator is an array of 8-byte     *)
(* words indexed by address: the size field of the block at address b is   *)
(* heap[b], its next field is heap[b + 8] (struct FreeListBlock).          *)
(***************************************************************************)
EXTENDS Integers, Sequences, FiniteSets, TLC

\* ------------------------------------------------------------------ bounds
\* Width of size_t in bits.
W == 7
\* Capacity in bytes of the region handed to freelist_init.
FLSize == 64
\* Capacity in bytes of the buffers handed to bump_init and stack_init.
BufSize == 76
\* The greatest pool_size handed to simple_memory_allocator_create.
SimpleSize == 76
\* Number of regions malloc can hand out at the same time.
MaxRegions == 2
\* Depth of nested marker scopes, and allocations made directly in a scope.
MaxDepth == 2
MaxLog == 2

\* --------------------------------------------------------- program constants
NULL == 0
ALIGNMENT == 8
FREELIST_HEADER_SIZE == 8
FREELIST_MIN_BLOCK == 16

\* The address of a region: the lowest 8-aligned address that is not NULL.
RegionBase == ALIGNMENT

RECURSIVE Pow2(_)
Pow2(k) == IF k = 0 THEN 1 ELSE 2 * Pow2(k - 1)

\* size_t arithmetic wraps around at SizeMod.
SizeMod == Pow2(W)
SizeT == 0 .. SizeMod - 1
SzAdd(x, y) == (x + y) % SizeMod
SzSub(x, y) == (x - y + SizeMod) % SizeMod

\* Mutant: the size is rounded down (the + 7 is missing).
AlignUp_Down(x) == x - (x % ALIGNMENT)

\* (x + 7) & ~((size_t)7)
AlignUp(x) == LET t == SzAdd(x, ALIGNMENT - 1) IN t - (t % ALIGNMENT)

VARIABLES
    freelist,   \* FreeListAllocator: [memory, size, free_list, used]
    heap,       \* the words of the free-list region, by address
    fl_live,    \* pointers returned by freelist_alloc and not yet freed
    fl_last     \* the last call on the free-list allocator: [op, arg, ret],
                \* and nfree, the length of the free list before it

fl_vars == <<freelist, heap, fl_live, fl_last>>

VARIABLES
    bump,       \* BumpAllocator: [memory, size, used]
    stack,      \* StackAllocator: [memory, size, top]
    lin_last,   \* the last call made on both: [op, arg, bret, sret]
    lin_sum,    \* exact sum of the exactly rounded sizes requested since
                \* init or reset, saturating above the capacity
    lin_pos     \* TRUE while every size requested since init or reset is > 0

lin_vars == <<bump, lin_last, lin_sum, lin_pos>>

VARIABLES
    st_last,    \* the last call on the stack allocator alone
    st_scopes,  \* the markers of the open scopes, outermost first
    st_log,     \* the <<size, address>> of the allocations made directly
                \* in the outermost open scope
    st_replay   \* the log being repeated after a release, and the position

st_vars == <<st_last, st_scopes, st_log, st_replay>>

VARIABLES
    sma,          \* SimpleMemoryAllocator: [memory, size, used]
    malloc_live,  \* the regions malloc has returned and free has not released
    sma_last      \* the last call on the simple allocator: [op, handle, arg,
                  \* ret, freed, after], freed the pointer it passed to
                  \* free, after the call made before it

sma_vars == <<sma, malloc_live, sma_last>>

VARIABLES
    mk_last,    \* the last call on the stack allocator used with markers in
                \* any order: [op, arg, ret, idx, top0], top0 the cursor before
    mk_held,    \* the markers the caller holds, in the order of their capture
    mk_stale    \* the positions in mk_held of the markers captured after a
                \* marker the stack has since been rolled back to

mk_vars == <<mk_last, mk_held, mk_stale>>

VARIABLES
    pool,       \* PoolAllocator: [memory, block_size, block_count,
                \* used_count, free_list]
    pool_mem,   \* the link stored at each address of the pool's region
    pool_live,  \* pointers returned by pool_alloc and not yet freed
    pool_last   \* the last call on the pool allocator: [op, arg, ret]

pool_vars == <<pool, pool_mem, pool_live, pool_last>>

VARIABLES
    rs_a,       \* a SimpleMemoryAllocator that is reset and used again
    rs_region,  \* the region its create acquired: [memory, size]
    rs_fresh,   \* a freshly created allocator over the same region, given
                \* the same requests as rs_a since the last reset
    rs_failed,  \* a size > 0 that rs_a refused since the last create or reset
    rs_last     \* the last call: [op, arg, ret, fresh], fresh what rs_fresh
                \* returned

rs_vars == <<rs_a, rs_region, rs_fresh, rs_failed, rs_last>>

\* What the calls on one allocator leave alone.
fl_others == <<bump, stack, lin_last, lin_sum, lin_pos, st_last, st_scopes,
               st_log, st_replay, sma, malloc_live, sma_last, mk_vars,
               pool_vars, rs_vars>>
lin_others == <<freelist, heap, fl_live, fl_last, st_last, st_scopes,
                st_log, st_replay, sma, malloc_live, sma_last, mk_vars,
                pool_vars, rs_vars>>
st_others == <<freelist, heap, fl_live, fl_last, bump, lin_last, lin_sum,
               lin_pos, sma, malloc_live, sma_last, mk_vars, pool_vars,
               rs_vars>>
sma_others == <<freelist, heap, fl_live, fl_last, bump, stack, lin_last,
                lin_sum, lin_pos, st_last, st_scopes, st_log, st_replay,
                mk_vars, pool_vars, rs_vars>>
mk_others == <<fl_vars, lin_vars, st_vars, sma_vars, pool_vars, rs_vars>>
pool_others == <<fl_vars, lin_vars, stack, st_vars, sma_vars, mk_vars,
                 rs_vars>>
rs_others == <<fl_vars, lin_vars, stack, st_vars, sma_vars, mk_vars,
               pool_vars>>

vars == <<freelist, heap, fl_live, fl_last, bump, stack, lin_last, lin_sum,
          lin_pos, st_last, st_scopes, st_log, st_replay, sma, malloc_live,
          sma_last, mk_vars, pool_vars, rs_vars>>

\* ============================================================ FREE LIST
\* Word addresses of the region, and two words past it.
HeapWords == (FLSize + ALIGNMENT - 1) \div ALIGNMENT + 2
HeapAddrs == { RegionBase + ALIGNMENT * i : i \in 0 .. HeapWords - 1 }

\* A FreeListBlock** is the address of the word it points to; the address
\* of the allocator's own free_list field is HeadSlot.
HeadSlot == NULL
NextField(block) == block + FREELIST_HEADER_SIZE

\* *slot = v: the allocator and the heap after the store.
SlotSetA(a, slot, v) == IF slot = HeadSlot THEN [a EXCEPT !.free_list = v] ELSE a
SlotSetH(h, slot, v) == IF slot = HeadSlot THEN h ELSE [h EXCEPT ![slot] = v]

\* freelist_init(a, memory, size)
freelist_init_a == [memory |-> RegionBase, size |-> FLSize,
                    free_list |-> RegionBase, used |-> 0]
freelist_init_heap ==
    [x \in HeapAddrs |->
        IF x = RegionBase THEN FLSize
        ELSE IF x = NextField(RegionBase) THEN NULL
        ELSE 0]

\* The number of blocks of the free list from a block on.
RECURSIVE FreeListLen(_, _, _)
FreeListLen(h, block, fuel) ==
    IF block = NULL \/ fuel = 0 THEN 0
    ELSE 1 + FreeListLen(h, h[NextField(block)], fuel - 1)

\* Mutant: required is not rounded up to a multiple of 8.
FreelistRequired_NoAlign(size) ==
    LET r == SzAdd(size, FREELIST_HEADER_SIZE)
    IN  IF r < FREELIST_MIN_BLOCK THEN FREELIST_MIN_BLOCK ELSE r

\* Mutant: required is not raised to the minimum block size.
FreelistRequired_NoMin(size) == AlignUp(SzAdd(size, FREELIST_HEADER_SIZE))

\* required, as freelist_alloc computes it from the request size.
FreelistRequired(size) ==
    LET r == AlignUp(SzAdd(size, FREELIST_HEADER_SIZE))
    IN  IF r < FREELIST_MIN_BLOCK THEN FREELIST_MIN_BLOCK ELSE r

\* The first-fit search loop of freelist_alloc: <<prev, block>> when it
\* stops, block = NULL when the list is exhausted.  fuel bounds the walk.
\* Mutant: the size test is strict.
RECURSIVE FirstFit_Strict(_, _, _, _, _)
FirstFit_Strict(h, prev, block, required, fuel) ==
    IF block = NULL \/ fuel = 0 THEN <<prev, NULL>>
    ELSE IF h[block] > required THEN <<prev, block>>
    ELSE FirstFit_Strict(h, NextField(block), h[NextField(block)], required, fuel - 1)

RECURSIVE FirstFit(_, _, _, _, _)
FirstFit(h, prev, block, required, fuel) ==
    IF block = NULL \/ fuel = 0 THEN <<prev, NULL>>
    ELSE IF h[block] >= required THEN <<prev, block>>
    ELSE FirstFit(h, NextField(block), h[NextField(block)], required, fuel - 1)

\* Mutant: the block is split whenever anything is left over, also when the
\* remainder is smaller than a minimum block.
FreelistTake_Sliver(a, h, prev, block, required) ==
    IF h[block] > required
    THEN LET new_free == block + required
             h1 == [h EXCEPT ![new_free] = SzSub(h[block], required)]
             h2 == [h1 EXCEPT ![NextField(new_free)] = h1[NextField(block)]]
             a3 == SlotSetA(a, prev, new_free)
             h3 == SlotSetH(h2, prev, new_free)
             h4 == [h3 EXCEPT ![block] = required]
         IN  [a |-> [a3 EXCEPT !.used = SzAdd(a3.used, required)],
              h |-> h4,
              ptr |-> block + FREELIST_HEADER_SIZE]
    ELSE LET a1 == SlotSetA(a, prev, h[NextField(block)])
             h1 == SlotSetH(h, prev, h[NextField(block)])
             full == h1[block]
         IN  [a |-> [a1 EXCEPT !.used = SzAdd(a1.used, full)],
              h |-> h1,
              ptr |-> block + FREELIST_HEADER_SIZE]

\* The body of the "if (block->size >= required)" branch: the allocator and
\* heap after the block found by the search is split or taken whole.
\* Returns [a, h, ptr].
FreelistTake(a, h, prev, block, required) ==
    IF h[block] >= SzAdd(required, FREELIST_MIN_BLOCK)
    THEN LET new_free == block + required
             h1 == [h EXCEPT ![new_free] = SzSub(h[block], required)]
             h2 == [h1 EXCEPT ![NextField(new_free)] = h1[NextField(block)]]
             a3 == SlotSetA(a, prev, new_free)
             h3 == SlotSetH(h2, prev, new_free)
             h4 == [h3 EXCEPT ![block] = required]
         IN  [a |-> [a3 EXCEPT !.used = SzAdd(a3.used, required)],
              h |-> h4,
              ptr |-> block + FREELIST_HEADER_SIZE]
    ELSE LET a1 == SlotSetA(a, prev, h[NextField(block)])
             h1 == SlotSetH(h, prev, h[NextField(block)])
             full == h1[block]
         IN  [a |-> [a1 EXCEPT !.used = SzAdd(a1.used, full)],
              h |-> h1,
              ptr |-> block + FREELIST_HEADER_SIZE]

\* Mutant: the counter is advanced before the search, also when it fails.
FreelistAllocResult_CountsFirst(a, h, size) ==
    IF size = 0 THEN [a |-> a, h |-> h, ptr |-> NULL]
    ELSE LET required == FreelistRequired(size)
             found == FirstFit(h, HeadSlot, a.free_list, required, HeapWords)
         IN  IF found[2] = NULL
             THEN [a |-> [a EXCEPT !.used = SzAdd(a.used, required)],
                   h |-> h, ptr |-> NULL]
             ELSE FreelistTake(a, h, found[1], found[2], required)

\* freelist_alloc(a, size): [a, h, ptr], ptr = NULL on failure.
FreelistAllocResult(a, h, size) ==
    IF size = 0 THEN [a |-> a, h |-> h, ptr |-> NULL]
    ELSE LET required == FreelistRequired(size)
             found == FirstFit(h, HeadSlot, a.free_list, required, HeapWords)
         IN  IF found[2] = NULL THEN [a |-> a, h |-> h, ptr |-> NULL]
             ELSE FreelistTake(a, h, found[1], found[2], required)

freelist_alloc(size) ==
    LET r == FreelistAllocResult(freelist, heap, size)
    IN  /\ freelist' = r.a
        /\ heap' = r.h
        /\ fl_live' = IF r.ptr = NULL THEN fl_live ELSE fl_live \cup {r.ptr}
        /\ fl_last' = [op |-> "alloc", arg |-> size, ret |-> r.ptr,
                        nfree |-> FreeListLen(heap, freelist.free_list, HeapWords)]

\* Mutant: the freed block is always inserted at the head of the list.
InsertScan_Head(h, prev, curr, block, fuel) == <<prev, curr>>

\* The insertion scan of freelist_free: <<prev, curr>> when
\* "while (curr != NULL && curr < block)" stops.
RECURSIVE InsertScan(_, _, _, _, _)
InsertScan(h, prev, curr, block, fuel) ==
    IF curr = NULL \/ ~(curr < block) \/ fuel = 0 THEN <<prev, curr>>
    ELSE InsertScan(h, NextField(curr), h[NextField(curr)], block, fuel - 1)

\* "Coalesce with next block if adjacent": the heap afterwards.
\* Mutant: the next block is never merged.
CoalesceNext_Never(h, block) == h
\* Mutant: the sizes are added but the absorbed block stays in the list.
CoalesceNext_NoUnlink(h, block) ==
    IF h[NextField(block)] # NULL
    THEN LET next == h[NextField(block)]
             block_end == block + h[block]
         IN  IF block_end = next
             THEN [h EXCEPT ![block] = SzAdd(h[block], h[next])]
             ELSE h
    ELSE h
CoalesceNext(h, block) ==
    IF h[NextField(block)] # NULL
    THEN LET next == h[NextField(block)]
             block_end == block + h[block]
         IN  IF block_end = next
             THEN LET h1 == [h EXCEPT ![block] = SzAdd(h[block], h[next])]
                  IN  [h1 EXCEPT ![NextField(block)] = h1[NextField(next)]]
             ELSE h
    ELSE h

\* The scan that finds the block before 'block' in the free list:
\* prev_scan when "while (scan != NULL && scan != block)" stops.
RECURSIVE PrevScan(_, _, _, _, _)
PrevScan(h, scan, prev_scan, block, fuel) ==
    IF scan = NULL \/ scan = block \/ fuel = 0 THEN prev_scan
    ELSE PrevScan(h, h[NextField(scan)], scan, block, fuel - 1)

\* "Coalesce with previous block if adjacent": the heap afterwards.
\* Mutant: the previous block is never merged.
CoalescePrev_Never(a, h, prev, block) == h
CoalescePrev(a, h, prev, block) ==
    IF prev # HeadSlot
    THEN LET prev_scan == PrevScan(h, a.free_list, NULL, block, HeapWords)
         IN  IF prev_scan # NULL
             THEN LET prev_end == prev_scan + h[prev_scan]
                  IN  IF prev_end = block
                      THEN LET h1 == [h EXCEPT ![prev_scan] =
                                         SzAdd(h[prev_scan], h[block])]
                           IN  [h1 EXCEPT ![NextField(prev_scan)] =
                                         h1[NextField(block)]]
                      ELSE h
             ELSE h
    ELSE h

\* Mutant: the used counter is not lowered on release.
FreelistFreeResult_NoCount(a, h, ptr) ==
    IF ptr = NULL THEN [a |-> a, h |-> h]
    ELSE LET block == ptr - FREELIST_HEADER_SIZE
             pos == InsertScan(h, HeadSlot, a.free_list, block, HeapWords)
             prev == pos[1]
             curr == pos[2]
             h1 == [h EXCEPT ![NextField(block)] = curr]
             a2 == SlotSetA(a, prev, block)
             h2 == SlotSetH(h1, prev, block)
             h3 == CoalesceNext(h2, block)
             h4 == CoalescePrev(a2, h3, prev, block)
         IN  [a |-> a2, h |-> h4]

\* freelist_free(a, ptr): [a, h].
FreelistFreeResult(a, h, ptr) ==
    IF ptr = NULL THEN [a |-> a, h |-> h]
    ELSE LET block == ptr - FREELIST_HEADER_SIZE
             a1 == [a EXCEPT !.used = SzSub(a.used, h[block])]
             pos == InsertScan(h, HeadSlot, a1.free_list, block, HeapWords)
             prev == pos[1]
             curr == pos[2]
             h1 == [h EXCEPT ![NextField(block)] = curr]
             a2 == SlotSetA(a1, prev, block)
             h2 == SlotSetH(h1, prev, block)
             h3 == CoalesceNext(h2, block)
             h4 == CoalescePrev(a2, h3, prev, block)
         IN  [a |-> a2, h |-> h4]

\* The caller frees only live pointers of this allocator, each once.
freelist_free(ptr) ==
    LET r == FreelistFreeResult(freelist, heap, ptr)
    IN  /\ freelist' = r.a
        /\ heap' = r.h
        /\ fl_live' = fl_live \ {ptr}
        /\ fl_last' = [op |-> "free", arg |-> ptr, ret |-> NULL,
                        nfree |-> FreeListLen(heap, freelist.free_list, HeapWords)]

\* Request sizes: 0, the least and the greatest size of every 8-byte rounding
\* class of size_t (8k + 1 and 8k + 8), and the greatest size_t.
FLRequests == { n \in SizeT : n % ALIGNMENT \in {0, 1} \/ n = SizeMod - 1 }

FLInit ==
    /\ freelist = freelist_init_a
    /\ heap = freelist_init_heap
    /\ fl_live = {}
    /\ fl_last = [op |-> "init", arg |-> FLSize, ret |-> NULL, nfree |-> 0]

FLAlloc == (\E size \in FLRequests : freelist_alloc(size)) /\ UNCHANGED fl_others
FLFree == (\E ptr \in fl_live : freelist_free(ptr)) /\ UNCHANGED fl_others
FLFreeNull == freelist_free(NULL) /\ UNCHANGED fl_others

FLNext == FLAlloc \/ FLFree \/ FLFreeNull

\* ------------------------------------------- free list: the capacity chosen
\* freelist_init(a, memory, size): [a, h].  The stores are the two fields
\* of the block at memory.
FreelistInitResult(h, memory, size) ==
    [a |-> [memory |-> memory, size |-> size, free_list |-> memory, used |-> 0],
     h |-> [h EXCEPT ![memory] = size, ![NextField(memory)] = NULL]]

\* The bytes freelist_init stores to: the size and the next field of the
\* block at memory.
FreelistInitWrites(memory) ==
    (memory .. memory + FREELIST_HEADER_SIZE - 1)
        \cup (NextField(memory) .. NextField(memory) + ALIGNMENT - 1)

\* The capacities a program gives freelist_init over its buffer of FLSize
\* bytes: none, one minimum block, one that is not a multiple of 8, all.
FLInitSizes == {0, FREELIST_MIN_BLOCK, FLSize \div 2 + 5, FLSize}

\* freelist_init(&a, buf, size) as the first call of the program, which
\* hands the allocator the first size bytes of its buffer.
FLInitAgain ==
    /\ UNCHANGED fl_others
    /\ fl_last.op = "init"
    /\ \E size \in FLInitSizes :
        LET r == FreelistInitResult(heap, RegionBase, size)
        IN  /\ freelist' = r.a
            /\ heap' = r.h
            /\ fl_last' = [op |-> "reinit", arg |-> size, ret |-> NULL,
                           nfree |-> 0]
            /\ UNCHANGED fl_live

FLInitNext == FLInitAgain \/ FLAlloc \/ FLFree \/ FLFreeNull

\* ========================================================= BUMP AND STACK
\* n rounded up to a multiple of 8, exactly (no wraparound).
ExactAlign(n) == ((n + ALIGNMENT - 1) \div ALIGNMENT) * ALIGNMENT

\* bump_init(a, memory, size)
bump_init == [memory |-> RegionBase, size |-> BufSize, used |-> 0]

\* bump_alloc(a, size): [a, ptr], ptr = NULL on failure.
BumpAllocResult(a, size) ==
    LET aligned == AlignUp(size)
    IN  IF SzAdd(a.used, aligned) > a.size
        THEN [a |-> a, ptr |-> NULL]
        ELSE [a |-> [a EXCEPT !.used = SzAdd(a.used, aligned)],
              ptr |-> a.memory + a.used]

\* bump_reset(a)
BumpResetResult(a) == [a EXCEPT !.used = 0]

\* stack_init(s, memory, size)
stack_init == [memory |-> RegionBase, size |-> BufSize, top |-> 0]

\* Mutant: the size is not rounded up.
StackAllocResult_Unaligned(s, size) ==
    IF SzAdd(s.top, size) > s.size
    THEN [s |-> s, ptr |-> NULL]
    ELSE [s |-> [s EXCEPT !.top = SzAdd(s.top, size)],
          ptr |-> s.memory + s.top]

\* stack_alloc(s, size): [s, ptr], ptr = NULL on failure.
StackAllocResult(s, size) ==
    LET aligned == AlignUp(size)
    IN  IF SzAdd(s.top, aligned) > s.size
        THEN [s |-> s, ptr |-> NULL]
        ELSE [s |-> [s EXCEPT !.top = SzAdd(s.top, aligned)],
              ptr |-> s.memory + s.top]

\* stack_get_marker(s)
stack_get_marker(s) == s.top

\* Mutant: the cursor is never moved.
StackFreeToMarkerResult_Never(s, marker) == s

\* Mutant: the cursor is set to the marker without the comparison.
StackFreeToMarkerResult_Always(s, marker) == [s EXCEPT !.top = marker]

\* stack_free_to_marker(s, marker)
StackFreeToMarkerResult(s, marker) ==
    IF marker <= s.top THEN [s EXCEPT !.top = marker] ELSE s

\* Mutant: the cursor is left where it is.
StackResetResult_Keeps(s) == s

\* stack_reset(s)
StackResetResult(s) == [s EXCEPT !.top = 0]

\* Request sizes: 0, the least and the greatest size of every 8-byte
\* rounding class of size_t, and the greatest size_t.
Requests == { n \in SizeT : n % ALIGNMENT \in {0, 1} \/ n = SizeMod - 1 }

\* The saturated value of lin_sum.
SumOver == BufSize + ALIGNMENT
SumPlus(sum, n) ==
    IF sum + ExactAlign(n) > BufSize THEN SumOver ELSE sum + ExactAlign(n)

LinInit ==
    /\ bump = bump_init
    /\ stack = stack_init
    /\ lin_last = [op |-> "init", arg |-> BufSize, bret |-> NULL, sret |-> NULL]
    /\ lin_sum = 0
    /\ lin_pos = TRUE

\* bump_alloc(&bump, size) and stack_alloc(&stack, size)
LinAlloc ==
    /\ UNCHANGED lin_others
    /\ \E size \in Requests :
        LET b == BumpAllocResult(bump, size)
            t == StackAllocResult(stack, size)
        IN  /\ bump' = b.a
            /\ stack' = t.s
            /\ lin_last' = [op |-> "alloc", arg |-> size,
                            bret |-> b.ptr, sret |-> t.ptr]
            /\ lin_sum' = SumPlus(lin_sum, size)
            /\ lin_pos' = (lin_pos /\ size > 0)

\* bump_reset(&bump) and stack_reset(&stack)
LinReset ==
    /\ UNCHANGED lin_others
    /\ bump' = BumpResetResult(bump)
    /\ stack' = StackResetResult(stack)
    /\ lin_last' = [op |-> "reset", arg |-> 0, bret |-> NULL, sret |-> NULL]
    /\ lin_sum' = 0
    /\ lin_pos' = TRUE

LinNext == LinAlloc \/ LinReset

\* ------------------------------------------- the stack with marker scopes
\* Request sizes of the scoped runs: a zero size, a size that is rounded,
\* the whole buffer, and a size at the top of size_t.
StRequests == {0, 2 * ALIGNMENT + 1, BufSize, SizeMod - ALIGNMENT}

NoReplay == [log |-> <<>>, pos |-> 1]

StInit ==
    /\ st_last = [op |-> "init", arg |-> BufSize, ret |-> NULL, expect |-> NULL]
    /\ st_scopes = <<>>
    /\ st_log = <<>>
    /\ st_replay = NoReplay

\* stack_alloc(&stack, size), in the innermost open scope.  The allocations
\* made directly in the outermost scope are logged, and at most MaxLog are
\* made.
StAlloc ==
    /\ UNCHANGED st_others
    /\ st_replay = NoReplay
    /\ Len(st_scopes) = 1 => Len(st_log) < MaxLog
    /\ \E size \in StRequests :
        LET t == StackAllocResult(stack, size)
        IN  /\ stack' = t.s
            /\ st_last' = [op |-> "alloc", arg |-> size, ret |-> t.ptr,
                           expect |-> NULL]
            /\ st_log' = IF Len(st_scopes) = 1
                         THEN Append(st_log, <<size, t.ptr>>)
                         ELSE st_log
            /\ UNCHANGED <<st_scopes, st_replay>>

\* StackMarker marker = stack_get_marker(&stack): a scope opens.
StGetMarker ==
    /\ UNCHANGED st_others
    /\ st_replay = NoReplay
    /\ Len(st_scopes) < MaxDepth
    /\ st_scopes' = Append(st_scopes, stack_get_marker(stack))
    /\ st_last' = [op |-> "get_marker", arg |-> 0,
                   ret |-> stack_get_marker(stack), expect |-> NULL]
    /\ UNCHANGED <<stack, st_log, st_replay>>

\* stack_free_to_marker(&stack, marker) with the marker of the innermost
\* scope: the scope closes; after the outermost one, the sizes logged in it
\* are requested again.
StFreeToMarker ==
    /\ UNCHANGED st_others
    /\ st_replay = NoReplay
    /\ st_scopes # <<>>
    /\ LET marker == st_scopes[Len(st_scopes)]
       IN  /\ stack' = StackFreeToMarkerResult(stack, marker)
           /\ st_last' = [op |-> "free_to_marker", arg |-> marker,
                          ret |-> NULL, expect |-> NULL]
           /\ st_scopes' = SubSeq(st_scopes, 1, Len(st_scopes) - 1)
           /\ st_replay' = IF Len(st_scopes) = 1
                           THEN [log |-> st_log, pos |-> 1]
                           ELSE NoReplay
           /\ st_log' = IF Len(st_scopes) = 1 THEN <<>> ELSE st_log

\* The next stack_alloc of the repetition.
StReplay ==
    /\ UNCHANGED st_others
    /\ st_replay.pos <= Len(st_replay.log)
    /\ LET size == st_replay.log[st_replay.pos][1]
           t == StackAllocResult(stack, size)
       IN  /\ stack' = t.s
           /\ st_last' = [op |-> "replay", arg |-> size, ret |-> t.ptr,
                          expect |-> st_replay.log[st_replay.pos][2]]
           /\ st_replay' = IF st_replay.pos = Len(st_replay.log) THEN NoReplay
                           ELSE [st_replay EXCEPT !.pos = @ + 1]
           /\ UNCHANGED <<st_scopes, st_log>>

StNext == StAlloc \/ StGetMarker \/ StFreeToMarker \/ StReplay

\* ------------------------------------- the stack with markers in any order
\* Markers the caller holds at the same time.
MaxMarkers == 2

\* Request sizes: one word, a size that is rounded, and a size at the top
\* of size_t.
MkRequests == {ALIGNMENT, 2 * ALIGNMENT + 1, SizeMod - ALIGNMENT}

MkInit ==
    /\ mk_last = [op |-> "init", arg |-> BufSize, ret |-> NULL, idx |-> 0,
                  top0 |-> 0]
    /\ mk_held = <<>>
    /\ mk_stale = {}

\* stack_alloc(&stack, size)
MkAlloc ==
    /\ UNCHANGED mk_others
    /\ \E size \in MkRequests :
        LET t == StackAllocResult(stack, size)
        IN  /\ stack' = t.s
            /\ mk_last' = [op |-> "alloc", arg |-> size, ret |-> t.ptr,
                           idx |-> 0, top0 |-> stack.top]
            /\ UNCHANGED <<mk_held, mk_stale>>

\* StackMarker marker = stack_get_marker(&stack): the caller holds one more.
MkGetMarker ==
    /\ UNCHANGED mk_others
    /\ Len(mk_held) < MaxMarkers
    /\ mk_held' = Append(mk_held, stack_get_marker(stack))
    /\ mk_last' = [op |-> "get_marker", arg |-> 0,
                   ret |-> stack_get_marker(stack), idx |-> Len(mk_held) + 1,
                   top0 |-> stack.top]
    /\ UNCHANGED <<stack, mk_stale>>

\* stack_free_to_marker(&stack, marker) with any marker the caller holds.
\* Used in LIFO order, the newest marker is given up with the call.  Used
\* out of order, the markers stay with the caller, and the ones captured
\* after the marker the stack is rolled back to, and greater, become stale.
MkFreeToMarker ==
    /\ UNCHANGED mk_others
    /\ \E i \in DOMAIN mk_held :
        LET marker == mk_held[i]
            s == StackFreeToMarkerResult(stack, marker)
            lifo == i = Len(mk_held) /\ mk_stale = {}
        IN  /\ stack' = s
            /\ mk_last' = [op |-> "free_to_marker", arg |-> marker,
                           ret |-> NULL, idx |-> i, top0 |-> stack.top]
            /\ mk_held' = IF lifo THEN SubSeq(mk_held, 1, i - 1) ELSE mk_held
            /\ mk_stale' =
                 IF lifo THEN {}
                 ELSE mk_stale \cup
                      { j \in DOMAIN mk_held :
                          j > i /\ mk_held[j] > marker /\ s.top = marker }

\* stack_reset(&stack): the caller gives up its markers.
MkReset ==
    /\ UNCHANGED mk_others
    /\ stack' = StackResetResult(stack)
    /\ mk_last' = [op |-> "reset", arg |-> 0, ret |-> NULL, idx |-> 0,
                   top0 |-> stack.top]
    /\ mk_held' = <<>>
    /\ mk_stale' = {}

MkNext == MkAlloc \/ MkGetMarker \/ MkFreeToMarker \/ MkReset

\* ================================================================= POOL
\* Greatest block_count handed to pool_init.
MaxBlocks == 3

\* sizeof(PoolFreeBlock): one pointer.
SIZEOF_POOL_FREE_BLOCK == 8

SzMul(x, y) == (x * y) % SizeMod

\* The block_size arguments of pool_init: smaller than a link, a link, and
\* a size that is not a multiple of a link.
PoolBlockSizes == {1, SIZEOF_POOL_FREE_BLOCK, SIZEOF_POOL_FREE_BLOCK + 4}
PoolBlockCounts == 0 .. MaxBlocks

\* The addresses of the memory handed to pool_init.
PoolAddrs ==
    RegionBase .. RegionBase + MaxBlocks * (SIZEOF_POOL_FREE_BLOCK + 4) - 1

\* The loop of pool_init from block i on: [mem, free_list].
RECURSIVE PoolInitLoop(_, _, _, _, _, _)
PoolInitLoop(memory, block_size, block_count, i, mem, free_list) ==
    IF i >= block_count THEN [mem |-> mem, free_list |-> free_list]
    ELSE LET block == memory + SzMul(i, block_size)
         IN  PoolInitLoop(memory, block_size, block_count, i + 1,
                          [mem EXCEPT ![block] = free_list], block)

\* Mutant: block_size is stored as given, also when smaller than a link.
PoolInitResult_NoRaise(memory, block_size, block_count, mem) ==
    LET r == PoolInitLoop(memory, block_size, block_count, 0, mem, NULL)
    IN  [p |-> [memory |-> memory, block_size |-> block_size,
                block_count |-> block_count, used_count |-> 0,
                free_list |-> r.free_list],
         mem |-> r.mem]

\* pool_init(p, memory, block_size, block_count): [p, mem].
PoolInitResult(memory, block_size, block_count, mem) ==
    LET bs == IF block_size < SIZEOF_POOL_FREE_BLOCK
              THEN SIZEOF_POOL_FREE_BLOCK ELSE block_size
        r == PoolInitLoop(memory, bs, block_count, 0, mem, NULL)
    IN  [p |-> [memory |-> memory, block_size |-> bs,
                block_count |-> block_count, used_count |-> 0,
                free_list |-> r.free_list],
         mem |-> r.mem]

\* Mutant: the counter is incremented before the test of the free list.
PoolAllocResult_CountsFirst(p, mem) ==
    IF p.free_list = NULL
    THEN [p |-> [p EXCEPT !.used_count = SzAdd(@, 1)], ptr |-> NULL]
    ELSE [p |-> [p EXCEPT !.free_list = mem[p.free_list],
                          !.used_count = SzAdd(@, 1)],
          ptr |-> p.free_list]

\* pool_alloc(p): [p, ptr], ptr = NULL on failure.
PoolAllocResult(p, mem) ==
    IF p.free_list = NULL THEN [p |-> p, ptr |-> NULL]
    ELSE LET block == p.free_list
         IN  [p |-> [p EXCEPT !.free_list = mem[block],
                              !.used_count = SzAdd(@, 1)],
              ptr |-> block]

\* Mutant: the test of ptr is missing; the store through NULL is lost.
PoolFreeResult_NoNullTest(p, mem, ptr) ==
    [p |-> [p EXCEPT !.free_list = ptr, !.used_count = SzSub(@, 1)],
     mem |-> IF ptr \in DOMAIN mem THEN [mem EXCEPT ![ptr] = p.free_list]
             ELSE mem]

\* Mutant: the freed block becomes the head but its link is not written.
PoolFreeResult_NoLink(p, mem, ptr) ==
    IF ptr = NULL THEN [p |-> p, mem |-> mem]
    ELSE [p |-> [p EXCEPT !.free_list = ptr, !.used_count = SzSub(@, 1)],
          mem |-> mem]

\* pool_free(p, ptr): [p, mem].
PoolFreeResult(p, mem, ptr) ==
    IF ptr = NULL THEN [p |-> p, mem |-> mem]
    ELSE [p |-> [p EXCEPT !.free_list = ptr, !.used_count = SzSub(@, 1)],
          mem |-> [mem EXCEPT ![ptr] = p.free_list]]

\* pool_used(p), pool_available(p)
pool_used(p) == p.used_count
pool_available(p) == SzSub(p.block_count, p.used_count)

\* The pool after pool_init(&pool, memory, 8, MaxBlocks).
PoolInit ==
    LET r == PoolInitResult(RegionBase, SIZEOF_POOL_FREE_BLOCK, MaxBlocks,
                            [x \in PoolAddrs |-> NULL])
    IN  /\ pool = r.p
        /\ pool_mem = r.mem
        /\ pool_live = {}
        /\ pool_last = [op |-> "init", arg |-> MaxBlocks, ret |-> NULL,
                        block_size |-> SIZEOF_POOL_FREE_BLOCK]

\* pool_init(&pool, memory, block_size, block_count) again, on a pool of
\* which no slot is live.
PoolInitAgain ==
    /\ UNCHANGED pool_others
    /\ pool_live = {}
    /\ \E block_size \in PoolBlockSizes : \E block_count \in PoolBlockCounts :
        LET r == PoolInitResult(RegionBase, block_size, block_count, pool_mem)
        IN  /\ pool' = r.p
            /\ pool_mem' = r.mem
            /\ pool_last' = [op |-> "reinit", arg |-> block_count, ret |-> NULL,
                             block_size |-> block_size]
            /\ UNCHANGED pool_live

\* pool_alloc(&pool)
PoolAlloc ==
    /\ UNCHANGED pool_others
    /\ LET r == PoolAllocResult(pool, pool_mem)
       IN  /\ pool' = r.p
           /\ pool_live' = IF r.ptr = NULL THEN pool_live
                           ELSE pool_live \cup {r.ptr}
           /\ pool_last' = [pool_last EXCEPT !.op = "alloc", !.arg = 0,
                                             !.ret = r.ptr]
           /\ UNCHANGED pool_mem

\* pool_free(&pool, ptr) with a live pointer of this pool.
PoolFree ==
    /\ UNCHANGED pool_others
    /\ \E ptr \in pool_live :
        LET r == PoolFreeResult(pool, pool_mem, ptr)
        IN  /\ pool' = r.p
            /\ pool_mem' = r.mem
            /\ pool_live' = pool_live \ {ptr}
            /\ pool_last' = [pool_last EXCEPT !.op = "free", !.arg = ptr,
                                              !.ret = NULL]

\* pool_free(&pool, NULL)
PoolFreeNull ==
    /\ UNCHANGED pool_others
    /\ LET r == PoolFreeResult(pool, pool_mem, NULL)
       IN  /\ pool' = r.p
           /\ pool_mem' = r.mem
           /\ pool_last' = [pool_last EXCEPT !.op = "free", !.arg = NULL,
                                             !.ret = NULL]
           /\ UNCHANGED pool_live

PoolNext == PoolInitAgain \/ PoolAlloc \/ PoolFree \/ PoolFreeNull

\* ===================================================== SIMPLE ALLOCATOR
\* The regions of the environment's allocator, by address.
MallocAddrs == { RegionBase * i : i \in 1 .. MaxRegions }
CreateSizes == {0, SimpleSize \div 3, SimpleSize}

\* simple_memory_allocator_init(allocator)
simple_memory_allocator_init == [memory |-> NULL, size |-> 0, used |-> 0]

\* Mutant: the test of size == 0 is missing.
SmaAllocResult_NoZeroTest(a, size) ==
    IF a.memory = NULL THEN [a |-> a, ptr |-> NULL]
    ELSE LET aligned_size == AlignUp(size)
         IN  IF SzAdd(a.used, aligned_size) > a.size
             THEN [a |-> a, ptr |-> NULL]
             ELSE [a |-> [a EXCEPT !.used = SzAdd(a.used, aligned_size)],
                   ptr |-> a.memory + a.used]

\* simple_memory_allocator_alloc(allocator, size) with allocator != NULL:
\* [a, ptr].
SmaAllocResult(a, size) ==
    IF a.memory = NULL \/ size = 0 THEN [a |-> a, ptr |-> NULL]
    ELSE LET aligned_size == AlignUp(size)
         IN  IF SzAdd(a.used, aligned_size) > a.size
             THEN [a |-> a, ptr |-> NULL]
             ELSE [a |-> [a EXCEPT !.used = SzAdd(a.used, aligned_size)],
                   ptr |-> a.memory + a.used]

\* The address of the caller's SimpleMemoryAllocator, above the regions of
\* malloc; the handle passed to a call is this address or NULL.
SmaAddr == RegionBase * (MaxRegions + 1)
SmaHandles == {NULL, SmaAddr}

\* Mutant: size is stored before malloc is called.
SmaCreateResult_StoresFirst(a, allocator, pool_size, memory) ==
    IF allocator = NULL \/ pool_size = 0 THEN [a |-> a, ret |-> -1]
    ELSE IF memory = NULL THEN [a |-> [a EXCEPT !.size = pool_size], ret |-> -1]
    ELSE [a |-> [memory |-> memory, size |-> pool_size, used |-> 0],
          ret |-> 0]

\* simple_memory_allocator_create(allocator, pool_size), memory being what
\* malloc returns if it is called: [a, ret].
SmaCreateResult(a, allocator, pool_size, memory) ==
    IF allocator = NULL \/ pool_size = 0 THEN [a |-> a, ret |-> -1]
    ELSE IF memory = NULL THEN [a |-> a, ret |-> -1]
    ELSE [a |-> [memory |-> memory, size |-> pool_size, used |-> 0],
          ret |-> 0]

\* Mutant: used is not cleared.
SmaResetResult_Keeps(a, allocator) == a

\* simple_memory_allocator_reset(allocator)
SmaResetResult(a, allocator) ==
    IF allocator # NULL THEN [a EXCEPT !.used = 0] ELSE a

\* Mutant: the memory field is not cleared after free.
SmaDestroyResult_KeepsMemory(a, allocator) ==
    IF allocator # NULL
    THEN [a |-> [a EXCEPT !.size = 0, !.used = 0], freed |-> a.memory]
    ELSE [a |-> a, freed |-> NULL]

\* simple_memory_allocator_destroy(allocator): [a, freed], freed the
\* pointer passed to free (free(NULL) does nothing).
SmaDestroyResult(a, allocator) ==
    IF allocator # NULL
    THEN [a |-> [memory |-> NULL, size |-> 0, used |-> 0], freed |-> a.memory]
    ELSE [a |-> a, freed |-> NULL]

\* The call a record of sma_last stands for: its name, or "null" if the
\* handle passed was NULL.
SmaCall(last) == IF last.handle = NULL THEN "null" ELSE last.op

SmaInit ==
    /\ sma = simple_memory_allocator_init
    /\ malloc_live = {}
    /\ sma_last = [op |-> "init", handle |-> SmaAddr, arg |-> 0, ret |-> 0,
                   freed |-> NULL, after |-> "none"]

\* simple_memory_allocator_init(&sma), at any time.
SmaInitAgain ==
    /\ UNCHANGED sma_others
    /\ sma' = simple_memory_allocator_init
    /\ sma_last' = [op |-> "reinit", handle |-> SmaAddr, arg |-> 0, ret |-> 0,
                    freed |-> NULL, after |-> SmaCall(sma_last)]
    /\ UNCHANGED malloc_live

\* simple_memory_allocator_create(allocator, pool_size): malloc, if it is
\* called, fails or returns a region that is not live.
SmaCreate ==
    /\ UNCHANGED sma_others
    /\ \E allocator \in SmaHandles : \E pool_size \in CreateSizes :
       \E memory \in IF allocator = NULL \/ pool_size = 0 THEN {NULL}
                     ELSE {NULL} \cup (MallocAddrs \ malloc_live) :
          LET r == SmaCreateResult(sma, allocator, pool_size, memory)
          IN  /\ sma' = r.a
              /\ malloc_live' = malloc_live \cup ({memory} \ {NULL})
              /\ sma_last' = [op |-> "create", handle |-> allocator,
                              arg |-> pool_size, ret |-> r.ret,
                              freed |-> NULL, after |-> SmaCall(sma_last)]

\* Request sizes: zero, one byte, a size that is rounded, the greatest pool,
\* and the two ends of the top rounding class of size_t.
SmaRequests ==
    {0, 1, 2 * ALIGNMENT + 1, SimpleSize, SizeMod - ALIGNMENT, SizeMod - 1}

\* simple_memory_allocator_alloc(allocator, size)
SmaAlloc ==
    /\ UNCHANGED sma_others
    /\ \E allocator \in SmaHandles : \E size \in SmaRequests :
        LET r == IF allocator = NULL THEN [a |-> sma, ptr |-> NULL]
                 ELSE SmaAllocResult(sma, size)
        IN  /\ sma' = r.a
            /\ sma_last' = [op |-> "alloc", handle |-> allocator,
                            arg |-> size, ret |-> r.ptr, freed |-> NULL,
                            after |-> SmaCall(sma_last)]
            /\ UNCHANGED malloc_live

\* simple_memory_allocator_reset(allocator)
SmaReset ==
    /\ UNCHANGED sma_others
    /\ \E allocator \in SmaHandles :
        /\ sma' = SmaResetResult(sma, allocator)
        /\ sma_last' = [op |-> "reset", handle |-> allocator, arg |-> 0,
                        ret |-> 0, freed |-> NULL, after |-> SmaCall(sma_last)]
        /\ UNCHANGED malloc_live

\* simple_memory_allocator_destroy(allocator)
SmaDestroy ==
    /\ UNCHANGED sma_others
    /\ \E allocator \in SmaHandles :
        LET r == SmaDestroyResult(sma, allocator)
        IN  /\ sma' = r.a
            /\ malloc_live' = malloc_live \ {r.freed}
            /\ sma_last' = [op |-> "destroy", handle |-> allocator,
                            arg |-> 0, ret |-> 0, freed |-> r.freed,
                            after |-> SmaCall(sma_last)]

SmaNext == SmaInitAgain \/ SmaCreate \/ SmaAlloc \/ SmaReset \/ SmaDestroy

\* ---------------------------------- the simple allocator reset and reused
\* Request sizes: zero, one word, a size that is rounded, the greatest
\* pool, and a size at the top of size_t.
RsRequests == {0, ALIGNMENT, 2 * ALIGNMENT + 1, SimpleSize, SizeMod - ALIGNMENT}
RsCreateSizes == {SimpleSize \div 3, SimpleSize}

\* A freshly created allocator over a region.
RsFresh(region) ==
    SmaCreateResult(simple_memory_allocator_init, SmaAddr, region.size,
                    region.memory).a

RsInit ==
    /\ rs_a = simple_memory_allocator_init
    /\ rs_region = [memory |-> NULL, size |-> 0]
    /\ rs_fresh = simple_memory_allocator_init
    /\ rs_failed = 0
    /\ rs_last = [op |-> "init", arg |-> 0, ret |-> NULL, fresh |-> NULL,
                  after |-> "init"]

\* simple_memory_allocator_create(&rs_a, pool_size) on an allocator that has
\* no pool; malloc returns the region.
RsCreate ==
    /\ UNCHANGED rs_others
    /\ rs_a.memory = NULL
    /\ \E pool_size \in RsCreateSizes :
        LET r == SmaCreateResult(rs_a, SmaAddr, pool_size, RegionBase)
        IN  /\ rs_a' = r.a
            /\ rs_region' = [memory |-> r.a.memory, size |-> r.a.size]
            /\ rs_fresh' = RsFresh([memory |-> RegionBase, size |-> pool_size])
            /\ rs_failed' = 0
            /\ rs_last' = [op |-> "create", arg |-> pool_size, ret |-> NULL,
                           fresh |-> NULL, after |-> rs_last.op]

\* simple_memory_allocator_alloc with the same size on both allocators.
RsAlloc ==
    /\ UNCHANGED rs_others
    /\ rs_a.memory # NULL
    /\ \E size \in RsRequests :
        LET r == SmaAllocResult(rs_a, size)
            f == SmaAllocResult(rs_fresh, size)
        IN  /\ rs_a' = r.a
            /\ rs_fresh' = f.a
            /\ rs_failed' = IF size > 0 /\ r.ptr = NULL THEN size
                            ELSE rs_failed
            /\ rs_last' = [op |-> "alloc", arg |-> size, ret |-> r.ptr,
                           fresh |-> f.ptr, after |-> rs_last.op]
            /\ UNCHANGED rs_region

\* simple_memory_allocator_reset(&rs_a); the allocator it is compared with
\* from now on is a fresh one over the same region.
RsReset ==
    /\ UNCHANGED rs_others
    /\ rs_a.memory # NULL
    /\ rs_a' = SmaResetResult(rs_a, SmaAddr)
    /\ rs_fresh' = RsFresh(rs_region)
    /\ rs_last' = [op |-> "reset", arg |-> 0, ret |-> NULL, fresh |-> NULL,
                   after |-> rs_last.op]
    /\ UNCHANGED <<rs_region, rs_failed>>

\* simple_memory_allocator_destroy(&rs_a)
RsDestroy ==
    /\ UNCHANGED rs_others
    /\ rs_a.memory # NULL
    /\ rs_a' = SmaDestroyResult(rs_a, SmaAddr).a
    /\ rs_region' = [memory |-> NULL, size |-> 0]
    /\ rs_fresh' = simple_memory_allocator_init
    /\ rs_failed' = 0
    /\ rs_last' = [op |-> "destroy", arg |-> 0, ret |-> NULL, fresh |-> NULL,
                   after |-> rs_last.op]

RsNext == RsCreate \/ RsAlloc \/ RsReset \/ RsDestroy

\* ------------------------------------------------- one allocator, any one
\* The calls of a program that uses the free-list allocator, the pool or
\* the simple allocator alone: whichever it calls first.
OnlyFreeList == pool_last.op = "init" /\ sma_last.op = "init" /\ FLNext
OnlyPool == fl_last.op = "init" /\ sma_last.op = "init" /\ PoolNext
OnlySimple == fl_last.op = "init" /\ pool_last.op = "init" /\ SmaNext
OnlyNext == OnlyFreeList \/ OnlyPool \/ OnlySimple

\* ======================================================== SPECIFICATIONS
Init ==
    /\ FLInit /\ LinInit /\ StInit /\ SmaInit
    /\ MkInit /\ PoolInit /\ RsInit

\* The free-list allocator alone.
SpecFreeList == Init /\ [][FLNext]_vars

\* The bump and the stack allocator side by side, given the same calls.
SpecLinear == Init /\ [][LinNext]_vars

\* The stack allocator used through nested marker scopes.
SpecStack == Init /\ [][StNext]_vars

\* The simple allocator, which owns its region.
SpecSimple == Init /\ [][SmaNext]_vars

\* The stack allocator with the caller's markers used in any order.
SpecMarker == Init /\ [][MkNext]_vars

\* The pool allocator alone.
SpecPool == Init /\ [][PoolNext]_vars

\* The simple allocator next to a fresh one over the same region.
SpecReset == Init /\ [][RsNext]_vars

\* Any one of the allocators that have a release call, alone.
SpecRelease == Init /\ [][OnlyNext]_vars

\* The free-list allocator over a capacity chosen at its initialisation.
SpecFreeListInit == Init /\ [][FLInitNext]_vars

\* ---------------------------------------------- reading the free-list state
\* The free list from a block on, in list order.
RECURSIVE ListFrom(_, _, _)
ListFrom(h, block, fuel) ==
    IF block = NULL \/ fuel = 0 THEN <<>>
    ELSE <<block>> \o ListFrom(h, h[NextField(block)], fuel - 1)

FreeList == ListFrom(heap, freelist.free_list, HeapWords + 1)
FreeBlocks == { FreeList[i] : i \in DOMAIN FreeList }
LiveBlocks == { p - FREELIST_HEADER_SIZE : p \in fl_live }
BlockSize(b) == heap[b]
RegionBytes == freelist.memory .. freelist.memory + freelist.size - 1
BlockBytes(b) == b .. b + BlockSize(b) - 1

\* ================================================== FREE LIST: the claims
FLIsAlloc == fl_last.op = "alloc"
FLIsFree == fl_last.op = "free" /\ fl_last.arg # NULL
FLSetMin(S) == CHOOSE x \in S : \A y \in S : x <= y

\* C1: the free-list blocks and the live blocks exactly tile
\* [base, base + capacity): every block lies inside the region and every
\* byte of the region belongs to exactly one block.
C1_Tiling ==
    /\ \A i \in DOMAIN FreeList : BlockBytes(FreeList[i]) \subseteq RegionBytes
    /\ \A b \in LiveBlocks : BlockBytes(b) \subseteq RegionBytes
    /\ \A x \in RegionBytes :
          Cardinality({ i \in DOMAIN FreeList : x \in BlockBytes(FreeList[i]) })
        + Cardinality({ b \in LiveBlocks : x \in BlockBytes(b) }) = 1

\* C1 witness: after a free, live blocks and several free blocks coexist.
C1_Witness ==
    /\ FLIsFree
    /\ Cardinality(fl_live) >= 2
    /\ Len(FreeList) >= 2

\* C2: once every live allocation has been freed, the free list is exactly
\* one block that starts at base and has the size of the region, and
\* used() == 0.
C2_AllFreed ==
    fl_live = {} =>
        /\ FreeList = <<freelist.memory>>
        /\ BlockSize(freelist.memory) = freelist.size
        /\ freelist.used = 0

\* C2 witness: the last live block has just been freed, it was not the block
\* at base, and the free list had two blocks before the call.
C2_Witness ==
    /\ FLIsFree
    /\ fl_live = {}
    /\ fl_last.arg > freelist.memory + FREELIST_HEADER_SIZE
    /\ fl_last.nfree = 2

\* C3: no free block ends exactly where another free block starts; and a
\* free of a block lying between two free neighbours leaves one free block,
\* at the address of the lower neighbour, whose size is the sum of the three.
C3_NoAdjacentFree ==
    \A i, j \in DOMAIN FreeList :
        FreeList[i] + BlockSize(FreeList[i]) # FreeList[j]

C3_ThreeWayStep ==
    (fl_last'.op = "free" /\ fl_last'.arg # NULL) =>
        LET block == fl_last'.arg - FREELIST_HEADER_SIZE
        IN  \A p, nx \in FreeBlocks :
                (p + heap[p] = block /\ block + heap[block] = nx) =>
                    /\ heap'[p] = heap[p] + heap[block] + heap[nx]
                    /\ p \in FreeBlocks'
                    /\ block \notin FreeBlocks'
                    /\ nx \notin FreeBlocks'
                    /\ Len(FreeList') = Len(FreeList) - 1

C3_Coalesced == []C3_NoAdjacentFree /\ [][C3_ThreeWayStep]_vars

\* C3 witness: a free has just merged the freed block with both neighbours
\* (the free list is one block shorter than before the call).
C3_Witness ==
    /\ FLIsFree
    /\ Len(FreeList) = fl_last.nfree - 1
    /\ fl_live # {}

\* required = max(align8(n + header size), minimum block size), in size_t
\* arithmetic.
C4_Required(n) ==
    LET sum == (n + FREELIST_HEADER_SIZE) % SizeMod
        up == (sum + 7) % SizeMod
        aligned == up - (up % 8)
    IN  IF aligned >= FREELIST_MIN_BLOCK THEN aligned ELSE FREELIST_MIN_BLOCK

\* Positions in the free list of the blocks of size >= required.
C4_Fits(required) == { i \in DOMAIN FreeList : BlockSize(FreeList[i]) >= required }

\* C4: freelist_alloc(n), n > 0, returns NULL if and only if no free block
\* has size >= required; otherwise it returns the payload address of the
\* first block in list order of size >= required, which is also the
\* lowest-addressed such block.
C4_FirstFitStep ==
    (fl_last'.op = "alloc" /\ fl_last'.arg > 0) =>
        LET fits == C4_Fits(C4_Required(fl_last'.arg))
        IN  /\ (fl_last'.ret = NULL) <=> (fits = {})
            /\ fits # {} =>
                LET first == FreeList[FLSetMin(fits)]
                IN  /\ fl_last'.ret = first + FREELIST_HEADER_SIZE
                    /\ \A i \in fits : first <= FreeList[i]

C5_FailStep ==
    fl_last'.op = "alloc" =>
        /\ (fl_last'.arg = 0 \/ C4_Fits(C4_Required(fl_last'.arg)) = {})
              => fl_last'.ret = NULL
        /\ fl_last'.ret = NULL =>
              /\ freelist' = freelist
              /\ heap' = heap
              /\ fl_live' = fl_live

LinInRegion(ptr, base, size) ==
    /\ ptr # NULL
    /\ base <= ptr /\ ptr < base + size
    /\ (ptr - base) % ALIGNMENT = 0
\* The address follows the one of the previous call by the rounded size of
\* the previous request; the first one is base + 0.
LinFollows(ptr, prev_is_alloc, prev_ptr, prev_arg, base) ==
    IF prev_is_alloc
    THEN ptr > prev_ptr /\ ptr = prev_ptr + ExactAlign(prev_arg)
    ELSE ptr = base
C6_Step ==
    /\ LinInRegion(lin_last'.bret, bump.memory, bump.size)
    /\ LinInRegion(lin_last'.sret, stack.memory, stack.size)
    /\ LinFollows(lin_last'.bret, lin_last.op = "alloc", lin_last.bret,
                  lin_last.arg, bump.memory)
    /\ LinFollows(lin_last'.sret, lin_last.op = "alloc", lin_last.sret,
                  lin_last.arg, stack.memory)

\* C6, as stated: in a sequence of allocate calls whose rounded sizes sum to
\* at most the capacity, every call returns an address inside the region,
\* at an offset that is a multiple of 8, that exceeds the previous address
\* by the rounded size of the previous request (the first is base + 0).
C6_AsStated ==
    [][(lin_last'.op = "alloc" /\ lin_sum' <= BufSize) => C6_Step]_vars

\* C6, amended: the same for sequences of calls whose sizes are all > 0.
C6_Sequential ==
    [][(lin_last'.op = "alloc" /\ lin_sum' <= BufSize /\ lin_pos')
          => C6_Step]_vars

\* C6 witness: a later call of such a sequence, of a size that is not a
\* multiple of 8, has just filled the buffer up to its last whole 8 bytes.
C6_Witness ==
    /\ lin_last.op = "alloc"
    /\ lin_pos
    /\ lin_sum = (BufSize \div ALIGNMENT) * ALIGNMENT
    /\ lin_last.bret > bump.memory + ALIGNMENT
    /\ lin_last.sret = lin_last.bret
    /\ lin_last.arg % ALIGNMENT # 0

\* C7 (for a request of n > 0 bytes on an allocator that has a pool):
\* allocate(n) succeeds exactly when used + align8(n) <= capacity; on
\* success it returns base + used and advances used by align8(n); on
\* failure it returns NULL and leaves the allocator unchanged; and
\* 0 <= used <= capacity in every reachable state.
C7_Step ==
    (sma_last'.op = "alloc" /\ sma_last'.handle # NULL /\ sma_last'.arg > 0
       /\ sma.memory # NULL) =>
        LET n == sma_last'.arg
            fits == sma.used + ExactAlign(n) <= sma.size
        IN  /\ (sma_last'.ret # NULL) <=> fits
            /\ fits => /\ sma_last'.ret = sma.memory + sma.used
                       /\ sma'.used = sma.used + ExactAlign(n)
                       /\ sma'.memory = sma.memory
                       /\ sma'.size = sma.size
            /\ ~fits => sma' = sma

C7_AllocRule ==
    /\ [](0 <= sma.used /\ sma.used <= sma.size)
    /\ [][C7_Step]_vars

\* C8: bump_alloc(a, 0) and stack_alloc(s, 0) return NULL and leave the
\* cursor unchanged.
C8_ZeroRejected ==
    [][(lin_last'.op = "alloc" /\ lin_last'.arg = 0) =>
          /\ lin_last'.bret = NULL
          /\ lin_last'.sret = NULL
          /\ bump' = bump
          /\ stack' = stack]_vars

\* C9: allocate(n) succeeds only if n rounded up to a multiple of 8,
\* exactly, is at most capacity - used; and used never exceeds capacity.
C9_NoWraparound ==
    /\ [](bump.used <= bump.size /\ stack.top <= stack.size)
    /\ [][lin_last'.op = "alloc" =>
            /\ lin_last'.bret # NULL
                  => ExactAlign(lin_last'.arg) <= bump.size - bump.used
            /\ lin_last'.sret # NULL
                  => ExactAlign(lin_last'.arg) <= stack.size - stack.top]_vars

\* C10: stack_free_to_marker(m) with the marker of the innermost scope
\* restores the cursor to its value at the capture, and the allocations
\* repeated afterwards return the addresses they returned in the scope.
C10_MarkerRoundTrip ==
    /\ st_last.op = "free_to_marker" => stack.top = st_last.arg
    /\ st_last.op = "replay" => st_last.ret = st_last.expect

\* ================================================ STACK MARKERS: the claims
\* C11: stack_free_to_marker(marker) sets the cursor to exactly marker if
\* marker <= used and changes nothing if marker > used; in both cases base
\* and capacity are unchanged and used does not increase.
C11_Step ==
    mk_last'.op = "free_to_marker" =>
        LET marker == mk_last'.arg
        IN  /\ marker <= stack.top => stack'.top = marker
            /\ marker > stack.top => stack'.top = stack.top
            /\ stack'.memory = stack.memory
            /\ stack'.size = stack.size
            /\ stack'.top <= stack.top

C11_FreeToMarker == [][C11_Step]_vars

\* C11 witness: a call with a marker greater than the cursor has just left
\* a non-empty stack as it was.
C11_Witness ==
    /\ mk_last.op = "free_to_marker"
    /\ mk_last.arg > mk_last.top0
    /\ mk_last.top0 > 0
    /\ stack.top = mk_last.top0

\* ========================================================= POOL: the claims
\* C12: pool_alloc succeeds if and only if fewer than block_count slots are
\* live; a pool_alloc that fails returns NULL and changes neither the
\* counters nor the free list; and in every state available() is
\* block_count minus the number of live slots and used() is the number of
\* live slots.
C12_Counters ==
    /\ pool_available(pool) = pool.block_count - Cardinality(pool_live)
    /\ pool_used(pool) = Cardinality(pool_live)

C12_Step ==
    pool_last'.op = "alloc" =>
        /\ (pool_last'.ret # NULL)
              <=> (Cardinality(pool_live) < pool.block_count)
        /\ pool_last'.ret = NULL => (pool' = pool /\ pool_mem' = pool_mem)

C12_PoolCapacity == []C12_Counters /\ [][C12_Step]_vars

\* C12 witness: a pool_alloc has just failed on a pool all of whose slots
\* are live, one of them handed out a second time after a free.
C12_Witness ==
    /\ pool_last.op = "alloc"
    /\ pool_last.ret = NULL
    /\ pool.block_count = MaxBlocks
    /\ Cardinality(pool_live) = MaxBlocks
    /\ pool.free_list = NULL
    /\ pool_mem[pool.memory] # NULL

\* ============================================= SIMPLE ALLOCATOR: the claims
SmaZero == [memory |-> NULL, size |-> 0, used |-> 0]
SmaIs(last, op) == last.op = op /\ last.handle # NULL

\* C13: reset leaves used == 0 and the region as it was, and a second reset
\* in a row changes nothing; destroy leaves memory == NULL, size == 0 and
\* used == 0, and a second destroy in a row changes nothing and passes no
\* region to free.
C13_Step ==
    /\ SmaIs(sma_last', "reset") =>
          /\ sma'.used = 0
          /\ sma'.memory = sma.memory /\ sma'.size = sma.size
          /\ malloc_live' = malloc_live
          /\ sma_last'.after = "reset" => sma' = sma
    /\ SmaIs(sma_last', "destroy") =>
          /\ sma' = SmaZero
          /\ sma_last'.freed \in malloc_live \cup {NULL}
          /\ sma_last'.after = "destroy" =>
                /\ sma' = sma
                /\ malloc_live' = malloc_live
                /\ sma_last'.freed = NULL

C13_Idempotent == [][C13_Step]_vars

\* C13 witness: the second of two destroy calls in a row, both with the
\* allocator's handle, has just returned.
C13_Witness ==
    /\ SmaIs(sma_last, "destroy")
    /\ sma_last.after = "destroy"
    /\ sma = SmaZero
    /\ malloc_live = {}

\* C13 for bump_reset and stack_reset: used == 0 afterwards, the region as
\* it was, and a second reset in a row changes nothing.
C13_LinearReset ==
    [][lin_last'.op = "reset" =>
          /\ bump' = [bump EXCEPT !.used = 0]
          /\ stack' = [stack EXCEPT !.top = 0]
          /\ lin_last.op = "reset" => (bump' = bump /\ stack' = stack)]_vars

\* C14: every region acquired by a successful create is released exactly
\* once, by destroy: a region leaves the live regions of malloc only in a
\* destroy, free is passed only NULL or a live region, and the allocator
\* holds every live region (none is left without a reference to it).
C14_Lifecycle ==
    /\ [](malloc_live \subseteq {sma.memory})
    /\ [][/\ malloc_live' \subseteq malloc_live \/ sma_last'.op = "create"
          /\ malloc_live \subseteq malloc_live' \/ sma_last'.op = "destroy"
          /\ sma_last'.freed \in malloc_live \cup {NULL}]_vars

\* C15: simple_memory_allocator_create returns -1 and leaves every field of
\* the allocator as it was when the handle is NULL, pool_size is 0 or
\* malloc returns NULL; otherwise it returns 0 with memory the new region,
\* size == pool_size and used == 0.
C15_Step ==
    sma_last'.op = "create" =>
        LET failed == \/ sma_last'.handle = NULL
                      \/ sma_last'.arg = 0
                      \/ malloc_live' = malloc_live
        IN  /\ failed => (sma_last'.ret = -1 /\ sma' = sma
                          /\ malloc_live' = malloc_live)
            /\ ~failed =>
                  /\ sma_last'.ret = 0
                  /\ sma'.memory # NULL
                  /\ {sma'.memory} = malloc_live' \ malloc_live
                  /\ sma'.size = sma_last'.arg
                  /\ sma'.used = 0

C15_Create == [][C15_Step]_vars

\* C15 witness: a create with a valid handle and size has just failed for
\* lack of memory, on an allocator that has a pool in use.
C15_Witness ==
    /\ SmaIs(sma_last, "create")
    /\ sma_last.arg > 0
    /\ sma_last.ret = -1
    /\ sma.memory # NULL
    /\ sma.used > 0

\* C16: simple_memory_allocator_alloc returns NULL and leaves the allocator
\* unchanged when the handle is NULL, the allocator has no pool or the size
\* is 0; and an allocator has no pool after init and after destroy.
C16_Step ==
    /\ (sma_last'.op = "alloc"
        /\ (sma_last'.handle = NULL \/ sma.memory = NULL \/ sma_last'.arg = 0))
          => (sma_last'.ret = NULL /\ sma' = sma /\ malloc_live' = malloc_live)
    /\ (SmaIs(sma_last', "destroy") \/ SmaIs(sma_last', "reinit"))
          => sma'.memory = NULL

C16_AllocInvalid == [][C16_Step]_vars

\* C16 witness: a request of n > 0 bytes with a valid handle has just been
\* refused by an allocator that was destroyed by the call before.
C16_Witness ==
    /\ SmaIs(sma_last, "alloc")
    /\ sma_last.after = "destroy"
    /\ sma_last.arg > 0
    /\ sma_last.ret = NULL
    /\ sma.memory = NULL

\* ================================================= NULL RELEASE: the claim
\* C17: pool_free(p, NULL) and freelist_free(a, NULL) leave the allocator,
\* the contents of its region and its live allocations unchanged, and
\* simple_memory_allocator_reset(NULL) and simple_memory_allocator_destroy(NULL)
\* change nothing and release nothing.
C17_Step ==
    /\ (pool_last'.op = "free" /\ pool_last'.arg = NULL) =>
          (pool' = pool /\ pool_mem' = pool_mem /\ pool_live' = pool_live)
    /\ (fl_last'.op = "free" /\ fl_last'.arg = NULL) =>
          (freelist' = freelist /\ heap' = heap /\ fl_live' = fl_live)
    /\ (sma_last'.op \in {"reset", "destroy"} /\ sma_last'.handle = NULL) =>
          (sma' = sma /\ malloc_live' = malloc_live /\ sma_last'.freed = NULL)

C17_NullRelease == [][C17_Step]_vars

\* C17 witness: pool_free(p, NULL) has just returned on a pool that has
\* live slots and free slots.
C17_Witness ==
    /\ pool_last.op = "free"
    /\ pool_last.arg = NULL
    /\ pool_live # {}
    /\ pool.free_list # NULL
    /\ pool.used_count > 0

\* ================================================ RESET ROUND TRIP: claim
\* C18: after reset, every request returns the address, or the failure, that
\* the same sequence of requests returns on a freshly created allocator
\* over the same region; so a request that failed for lack of space can
\* succeed again.
C18_ResetReplay ==
    /\ rs_last.op = "alloc" => rs_last.ret = rs_last.fresh
    /\ rs_last.op = "reset" =>
          \A n \in RsRequests :
              SmaAllocResult(rs_a, n).ptr = SmaAllocResult(rs_fresh, n).ptr

\* C18 witness: the size of a request that had been refused has just been
\* granted, as the first request after a reset.
C18_Witness ==
    /\ rs_last.op = "alloc"
    /\ rs_last.after = "reset"
    /\ rs_last.arg = rs_failed
    /\ rs_last.ret = rs_a.memory
    /\ rs_last.ret = rs_last.fresh

\* ============================================ BUMP MONOTONICITY: the claim
\* C19: no bump_alloc decreases used or changes base or capacity, and
\* bump_reset sets used to 0 and leaves base and capacity unchanged.
C19_Step ==
    /\ lin_last'.op = "alloc" =>
          /\ bump'.used >= bump.used
          /\ bump'.memory = bump.memory
          /\ bump'.size = bump.size
    /\ lin_last'.op = "reset" =>
          /\ bump'.used = 0
          /\ bump'.memory = bump.memory
          /\ bump'.size = bump.size

C19_Monotonic == [][C19_Step]_vars

\* ======================================== OUT-OF-ORDER MARKERS: the claim
\* C20, as stated: once the stack has been rolled back to an older marker,
\* stack_free_to_marker with a marker captured after it, and greater,
\* leaves used unchanged.
C20_AsStated ==
    [][(mk_last'.op = "free_to_marker" /\ mk_last'.idx \in mk_stale)
          => stack'.top = stack.top]_vars

\* C20, amended: such a call leaves used unchanged as long as used is at
\* most the stale marker; once allocations have raised used above it, the
\* call sets used to the stale marker.
C20_StaleMarker ==
    [][(mk_last'.op = "free_to_marker" /\ mk_last'.idx \in mk_stale) =>
          LET m_new == mk_held[mk_last'.idx]
          IN  /\ mk_last'.arg = m_new
              /\ stack.top <= m_new => stack'.top = stack.top
              /\ stack.top > m_new => stack'.top = m_new]_vars

\* C20 witness: a call with a stale marker has just moved the cursor down
\* to it, past allocations made after the rollback.
C20_Witness ==
    /\ mk_last.op = "free_to_marker"
    /\ mk_last.idx \in mk_stale
    /\ mk_last.top0 > mk_last.arg
    /\ stack.top = mk_last.arg

\* =========================================== STACK AS BUMP: the claims
\* C21: a BumpAllocator and a StackAllocator over regions of equal capacity,
\* given the same allocate sizes and reset at the same points, return the
\* same offset or the same failure at every call, and bump used == stack
\* top after every step.
C21_StackIsBump ==
    /\ bump.size = stack.size
    /\ bump.used = stack.top
    /\ lin_last.op = "alloc" =>
          /\ (lin_last.bret = NULL) <=> (lin_last.sret = NULL)
          /\ lin_last.bret # NULL =>
                lin_last.bret - bump.memory = lin_last.sret - stack.memory

\* C21 witness: a request that is rounded up has just been refused by both
\* allocators, both partly used.
C21_Witness ==
    /\ lin_last.op = "alloc"
    /\ lin_last.arg % ALIGNMENT # 0
    /\ lin_last.bret = NULL
    /\ lin_last.sret = NULL
    /\ bump.used > 0
    /\ stack.top > 0

\* C22: from every stack state, stack_reset and stack_free_to_marker with
\* marker 0 produce the same state: used == 0, the region as it was.
C22_Step ==
    /\ mk_last'.op = "reset" =>
          /\ stack' = StackFreeToMarkerResult(stack, 0)
          /\ stack' = [stack EXCEPT !.top = 0]
    /\ (mk_last'.op = "free_to_marker" /\ mk_last'.arg = 0) =>
          /\ stack' = StackResetResult(stack)
          /\ stack' = [stack EXCEPT !.top = 0]

C22_ResetIsFreeToZero == [][C22_Step]_vars

\* C22 witness: stack_free_to_marker with a marker 0 has just emptied a
\* stack that held allocations.
C22_Witness ==
    /\ mk_last.op = "free_to_marker"
    /\ mk_last.arg = 0
    /\ mk_last.top0 > 0
    /\ stack.top = 0

\* ===================================== FREE LIST: order, split, accounting
\* The position of a block in the free list.
FLPos(block) == CHOOSE i \in DOMAIN FreeList : FreeList[i] = block
\* The sequence without its i-th element.
FLSeqRemove(seq, i) == SubSeq(seq, 1, i - 1) \o SubSeq(seq, i + 1, Len(seq))

\* C23: the free list is strictly ascending by block address from head to
\* tail and ends in NULL (no duplicate, no cycle); the remainder of a split
\* takes the list position of the block it was split from (a block taken
\* whole leaves the others in their order); and after a free the list holds,
\* in ascending order, the blocks it held and the freed one, each as itself
\* or inside the block it was merged into.
C23_Sorted ==
    /\ Len(FreeList) <= HeapWords
    /\ \A i \in 1 .. Len(FreeList) - 1 : FreeList[i] < FreeList[i + 1]
    /\ FreeList # <<>> => heap[NextField(FreeList[Len(FreeList)])] = NULL

C23_Step ==
    /\ (fl_last'.op = "alloc" /\ fl_last'.ret # NULL) =>
          LET block == fl_last'.ret - FREELIST_HEADER_SIZE
          IN  /\ block \in FreeBlocks
              /\ IF Len(FreeList') = Len(FreeList)
                 THEN FreeList' = [FreeList EXCEPT
                                      ![FLPos(block)] = block + heap'[block]]
                 ELSE FreeList' = FLSeqRemove(FreeList, FLPos(block))
    /\ (fl_last'.op = "free" /\ fl_last'.arg # NULL) =>
          LET block == fl_last'.arg - FREELIST_HEADER_SIZE
          IN  /\ FreeBlocks' \subseteq FreeBlocks \cup {block}
              /\ \A b \in FreeBlocks \cup {block} :
                    \E f \in FreeBlocks' :
                        f <= b /\ b + heap[b] <= f + heap'[f]

C23_Ordered == []C23_Sorted /\ [][C23_Step]_vars

\* C23 witness: an allocation has just split the first of several free
\* blocks, and the remainder is the first block of the list, below a live
\* block.
C23_Witness ==
    /\ FLIsAlloc
    /\ fl_last.ret # NULL
    /\ Len(FreeList) >= 2
    /\ Len(FreeList) = fl_last.nfree
    /\ FreeList[1] = fl_last.ret - FREELIST_HEADER_SIZE
                       + BlockSize(fl_last.ret - FREELIST_HEADER_SIZE)
    /\ \E b \in LiveBlocks : FreeList[1] < b /\ b < FreeList[2]

\* C24: when the block selected by a successful freelist_alloc has size >=
\* required + minimum block size, the allocated block gets size exactly
\* required and a new free block of size (old size - required) starts at
\* block + required; otherwise the whole block, at its full old size, is
\* allocated and removed from the free list, and no block is created.
C24_Step ==
    (fl_last'.op = "alloc" /\ fl_last'.ret # NULL) =>
        LET block == fl_last'.ret - FREELIST_HEADER_SIZE
            required == C4_Required(fl_last'.arg)
            old == BlockSize(block)
        IN  /\ block \in FreeBlocks
            /\ block \in LiveBlocks'
            /\ IF old >= required + FREELIST_MIN_BLOCK
               THEN /\ heap'[block] = required
                    /\ FreeBlocks' = (FreeBlocks \ {block}) \cup {block + required}
                    /\ heap'[block + required] = old - required
               ELSE /\ heap'[block] = old
                    /\ FreeBlocks' = FreeBlocks \ {block}
                    /\ \A f \in FreeBlocks' : heap'[f] = heap[f]

C24_SplitRule == [][C24_Step]_vars

\* C24 witness: an allocation has just taken whole a block larger than the
\* size required for the request, while another free block remains.
C24_Witness ==
    /\ FLIsAlloc
    /\ fl_last.ret # NULL
    /\ BlockSize(fl_last.ret - FREELIST_HEADER_SIZE) > C4_Required(fl_last.arg)
    /\ Len(FreeList) = fl_last.nfree - 1
    /\ FreeList # <<>>

\* The sum of the recorded sizes of the blocks of S in heap h.
RECURSIVE C25_Sum(_, _)
C25_Sum(S, h) ==
    IF S = {} THEN 0
    ELSE LET b == CHOOSE x \in S : TRUE
         IN  h[b] + C25_Sum(S \ {b}, h)

\* C25: in every reachable state used equals the sum of the recorded sizes
\* of the live blocks, and used plus the sum of the free-block sizes equals
\* the capacity; each successful freelist_alloc raises used by the final
\* recorded size of the block handed out, and each freelist_free of a live
\* pointer lowers it by the size that block still records.
C25_Balance ==
    /\ freelist.used = C25_Sum(LiveBlocks, heap)
    /\ freelist.used + C25_Sum(FreeBlocks, heap) = freelist.size

C25_Step ==
    /\ (fl_last'.op = "alloc" /\ fl_last'.ret # NULL) =>
          LET block == fl_last'.ret - FREELIST_HEADER_SIZE
          IN  /\ freelist'.used = freelist.used + heap'[block]
              /\ heap'[block] \in {C4_Required(fl_last'.arg), heap[block]}
    /\ (fl_last'.op = "free" /\ fl_last'.arg # NULL) =>
          LET block == fl_last'.arg - FREELIST_HEADER_SIZE
          IN  freelist'.used = freelist.used - heap[block]
    /\ \A b \in LiveBlocks \cap LiveBlocks' : heap'[b] = heap[b]

C25_Accounting == []C25_Balance /\ [][C25_Step]_vars

\* C25 witness: a live block has just been freed while another allocation
\* stays live, and the free list holds at least two blocks.
C25_Witness ==
    /\ FLIsFree
    /\ fl_live # {}
    /\ freelist.used > 0
    /\ freelist.used < freelist.size
    /\ Len(FreeList) >= 2

\* C30: a successful freelist_alloc(n) returns block + header size of a
\* block whose recorded size is at least n + header size (as exact
\* integers), so the n payload bytes lie inside that block and inside the
\* region; a request whose n + header size, or its rounding to 8, wraps
\* around never succeeds.
C30_Step ==
    (fl_last'.op = "alloc" /\ fl_last'.ret # NULL) =>
        LET block == fl_last'.ret - FREELIST_HEADER_SIZE
            n == fl_last'.arg
        IN  /\ block \in FreeBlocks
            /\ heap'[block] >= n + FREELIST_HEADER_SIZE
            /\ fl_last'.ret + n <= block + heap'[block]
            /\ fl_last'.ret + n <= freelist.memory + freelist.size
            /\ ExactAlign(n + FREELIST_HEADER_SIZE) < SizeMod

C30_PayloadFits == [][C30_Step]_vars

\* ============================================= POOL: list, slots, memory
\* The blocks reached from block through the links of mem, in list order;
\* fuel bounds the walk.
RECURSIVE PoolListFrom(_, _, _)
PoolListFrom(mem, block, fuel) ==
    IF block = NULL \/ fuel = 0 THEN <<>>
    ELSE <<block>> \o PoolListFrom(mem, mem[block], fuel - 1)

PoolList == PoolListFrom(pool_mem, pool.free_list, MaxBlocks + 1)
PoolListBlocks == { PoolList[i] : i \in DOMAIN PoolList }

\* The slots pool_init carved: memory + i * block_size, 0 <= i < block_count.
PoolSlots(p) ==
    { p.memory + SzMul(i, p.block_size) : i \in 0 .. p.block_count - 1 }

\* C26: in every state reached from pool_init by pool_alloc and pool_free
\* of live pointers, the free list is acyclic, holds each slot that is not
\* live exactly once and no live slot, and its length is pool_available()
\* == block_count - used_count; right after pool_init it holds all
\* block_count slots and used_count == 0.
C26_ListAgrees ==
    /\ Len(PoolList) <= pool.block_count
    /\ Cardinality(PoolListBlocks) = Len(PoolList)
    /\ PoolListBlocks = PoolSlots(pool) \ pool_live
    /\ pool_live \subseteq PoolSlots(pool)
    /\ Len(PoolList) = pool_available(pool)
    /\ pool_available(pool) = pool.block_count - pool.used_count
    /\ pool_last.op \in {"init", "reinit"} =>
          /\ PoolListBlocks = PoolSlots(pool)
          /\ Len(PoolList) = pool.block_count
          /\ pool.used_count = 0

\* C26 witness: in a pool of slots wider than a link, a slot has just been
\* freed and heads a list of at least two slots while another slot is live.
C26_Witness ==
    /\ pool_last.op = "free"
    /\ pool_last.arg # NULL
    /\ pool.block_size > SIZEOF_POOL_FREE_BLOCK
    /\ pool_live # {}
    /\ Len(PoolList) >= 2
    /\ PoolList[1] = pool_last.arg

\* block_size_effective = max(block_size, size of one link), for the
\* block_size given to pool_init.
PoolEffective(block_size) ==
    IF block_size >= SIZEOF_POOL_FREE_BLOCK THEN block_size
    ELSE SIZEOF_POOL_FREE_BLOCK

\* C27: every pointer returned by pool_alloc is base + i *
\* block_size_effective for some 0 <= i < block_count; its slot lies inside
\* the block_size_effective * block_count bytes from base; it is not live
\* when it is returned; and the slots of two live pointers do not overlap.
C27_Step ==
    (pool_last'.op = "alloc" /\ pool_last'.ret # NULL) =>
        LET eff == PoolEffective(pool_last'.block_size)
            ret == pool_last'.ret
        IN  /\ \E i \in 0 .. pool.block_count - 1 : ret = pool.memory + i * eff
            /\ pool.memory <= ret
            /\ ret + eff <= pool.memory + eff * pool.block_count
            /\ ret \notin pool_live

C27_Disjoint ==
    \A x \in pool_live : \A y \in pool_live :
        x < y => x + PoolEffective(pool_last.block_size) <= y

C27_SlotsInRange == []C27_Disjoint /\ [][C27_Step]_vars

\* C27 witness: a pool initialised with a block_size smaller than a link
\* has just handed out a slot above base while another slot is live.
C27_Witness ==
    /\ pool_last.op = "alloc"
    /\ pool_last.ret # NULL
    /\ pool_last.block_size < SIZEOF_POOL_FREE_BLOCK
    /\ pool_last.ret > pool.memory
    /\ Cardinality(pool_live) >= 2

\* POOL_MEMORY_SIZE(block_size, count)
POOL_MEMORY_SIZE(block_size, count) == SzMul(block_size, count)

\* C28: a region of POOL_MEMORY_SIZE(block_size, count) bytes passed to
\* pool_init with the same block_size and count holds the pool: every link
\* pool_init writes, and every slot handed out by pool_alloc, lies inside
\* the region.
C28_MemorySufficient ==
    LET bytes == POOL_MEMORY_SIZE(pool_last.block_size, pool.block_count)
        region == pool.memory .. pool.memory + bytes - 1
    IN  /\ \A slot \in PoolSlots(pool) :
              slot .. slot + SIZEOF_POOL_FREE_BLOCK - 1 \subseteq region
        /\ \A ptr \in pool_live :
              ptr .. ptr + pool_last.block_size - 1 \subseteq region

\* =================================================== FREE LIST: the init
\* C29: freelist_init installs exactly one free block at base whose size is
\* the whole capacity, with used == 0; and a zero-size region is detected
\* as an invalid argument: freelist_init stores to no byte outside
\* [base, base + capacity) and every later freelist_alloc fails.
C29_Step ==
    /\ fl_last'.op = "reinit" =>
          /\ freelist'.used = 0
          /\ freelist'.size = fl_last'.arg
          /\ fl_last'.arg > 0 =>
                /\ FreeList' = <<freelist'.memory>>
                /\ heap'[freelist'.memory] = fl_last'.arg
          /\ fl_last'.arg = 0 =>
                FreelistInitWrites(freelist'.memory) \subseteq RegionBytes'
    /\ (fl_last'.op = "alloc" /\ freelist.size = 0) =>
          /\ fl_last'.ret = NULL
          /\ freelist' = freelist /\ heap' = heap

C29_InitAndInvalid == [][C29_Step]_vars

\* ================================== FREE LIST: block sizes and alignment
\* C31: over a region of capacity >= the minimum block size, in every
\* reachable state every free-list block and every live block has size >=
\* FREELIST_MIN_BLOCK, and the size and next fields of every free-list
\* block lie inside the region.
C31_MinBlock ==
    freelist.size >= FREELIST_MIN_BLOCK =>
        /\ \A b \in FreeBlocks \cup LiveBlocks : BlockSize(b) >= FREELIST_MIN_BLOCK
        /\ \A b \in FreeBlocks :
              /\ freelist.memory <= b
              /\ b + FREELIST_MIN_BLOCK <= freelist.memory + freelist.size

\* C31 witness: over a capacity that is not a multiple of 8, the block at
\* the end of the region was handed out whole, and the block before it has
\* just been put back on the free list.
C31_Witness ==
    /\ FLIsFree
    /\ freelist.size % ALIGNMENT # 0
    /\ FreeList = <<freelist.memory>>
    /\ BlockSize(freelist.memory) = FREELIST_MIN_BLOCK
    /\ \E b \in LiveBlocks :
          /\ BlockSize(b) > FREELIST_MIN_BLOCK
          /\ b + BlockSize(b) = freelist.memory + freelist.size

\* C32: over a region of capacity >= the minimum block size, a multiple of
\* 8 or not, in every reachable state the head of the free list, every
\* pointer returned by freelist_alloc, every free block and every live
\* block is at an offset from base that is a multiple of 8, and a block
\* whose size is not a multiple of 8 ends at the end of the region.
C32_Aligned ==
    freelist.size >= FREELIST_MIN_BLOCK =>
        /\ freelist.free_list # NULL =>
              (freelist.free_list - freelist.memory) % ALIGNMENT = 0
        /\ \A ptr \in fl_live : (ptr - freelist.memory) % ALIGNMENT = 0
        /\ fl_last.op = "alloc" /\ fl_last.ret # NULL =>
              (fl_last.ret - freelist.memory) % ALIGNMENT = 0
        /\ \A b \in FreeBlocks \cup LiveBlocks :
              /\ (b - freelist.memory) % ALIGNMENT = 0
              /\ BlockSize(b) % ALIGNMENT # 0 =>
                    b + BlockSize(b) = freelist.memory + freelist.size

\* C32 witness: over a capacity that is not a multiple of 8, an allocation
\* has just been handed the whole block at the end of the region, of a size
\* that is not a multiple of 8, above another live block.
C32_Witness ==
    /\ FLIsAlloc
    /\ fl_last.ret # NULL
    /\ freelist.size % ALIGNMENT # 0
    /\ BlockSize(fl_last.ret - FREELIST_HEADER_SIZE) % ALIGNMENT # 0
    /\ fl_last.ret > freelist.memory + FREELIST_HEADER_SIZE
    /\ Cardinality(fl_live) >= 2
    /\ FreeList = <<>>

====
